---- MODULE Spec2Model ----
(***************************************************************************)
(* Model of SENN/scripts/main_mnist_clean.py: the MNIST train/validation   *)
(* split (load_mnist_data), the noise-stability evaluator                  *)
(* (eval_stability_2), and the script's control flow (main, __main__).     *)
(*                                                                         *)
(* Numbers: pixel values, noise scales and explanation coefficients are    *)
(* integers (noise scales in hundredths, as in np.arange(0, 0.21, 0.02)).  *)
(* A Euclidean norm is represented exactly by its square (NormSq), since   *)
(* the square root of an integer need not be an integer.                   *)
(***************************************************************************)
EXTENDS Integers, Sequences, FiniteSets, TLC

\* ---------------------------------------------------------------- bounds
\* Largest training-set size drawn for load_mnist_data.
MaxTrain == 4
\* Largest random_seed drawn for load_mnist_data.
MaxSeed == 5
\* Number of test samples visited by eval_stability_2 (range(10000) in the
\* source, scaled down).
NSamples == 3
\* Number of pixels of one image tensor (1x1x28x28 in the source, scaled down).
ImgLen == 2
\* Length of the theta and h vectors (number of concepts).
NConcepts == 2
\* Largest noise scale drawn for a stand-alone call of eval_stability_2.
MaxScale == 1
\* Number of states of the noise generator drawn as initial state.
MaxGen == 2

\* ------------------------------------------------------- sequence helpers
None == "None"

Range(s) == {s[k] : k \in DOMAIN s}

RECURSIVE SumSeq(_)
SumSeq(s) == IF s = <<>> THEN 0 ELSE s[1] + SumSeq(Tail(s))

\* s without its k-th element.
RemoveAt(s, k) == SubSeq(s, 1, k - 1) \o SubSeq(s, k + 1, Len(s))

\* ============================================================ load_mnist_data
VARIABLES s_pc, num_train, valid_size, shuffle, random_seed,
          indices, split, train_idx, valid_idx

splitVars == <<s_pc, num_train, valid_size, shuffle, random_seed,
               indices, split, train_idx, valid_idx>>

\* valid_size is a fraction given in tenths (the default 0.1 is 1).
ValidSizes == 0..10

\* list(range(n)): 0, 1, ..., n-1.
ListRange(n) == [k \in 1..n |-> k - 1]

\* int(np.floor(valid_size * num_train)), valid_size in tenths.
SplitPoint(vs, n) == (vs * n) \div 10

\* np.random.seed(seed); np.random.shuffle(s): the permutation of s that the
\* seed determines.  The seed is decoded as a Lehmer code, so that every
\* permutation is the result of some seed and equal seeds give equal results.
RECURSIVE Shuffle(_, _)
Shuffle(s, seed) ==
    IF Len(s) = 0 THEN <<>>
    ELSE LET k == (seed % Len(s)) + 1
         IN  <<s[k]>> \o Shuffle(RemoveAt(s, k), seed \div Len(s))

InitSplitVars ==
    /\ s_pc = "start"
    /\ num_train \in 1..MaxTrain
    /\ valid_size \in ValidSizes
    /\ shuffle \in BOOLEAN
    /\ random_seed \in 0..MaxSeed
    /\ indices = <<>>
    /\ split = 0
    /\ train_idx = <<>>
    /\ valid_idx = <<>>

IdleSplitVars ==
    /\ s_pc = "idle"
    /\ num_train = 0
    /\ valid_size = 1
    /\ shuffle = TRUE
    /\ random_seed = 0
    /\ indices = <<>>
    /\ split = 0
    /\ train_idx = <<>>
    /\ valid_idx = <<>>

\* The whole of load_mnist_data: the index lists are sliced out of `indices`
\* first (slices are copies), and `indices` is shuffled afterwards.
load_mnist_data ==
    /\ s_pc = "start"
    /\ LET idx == ListRange(num_train)
           sp  == SplitPoint(valid_size, num_train)
       IN  /\ split' = sp
           /\ train_idx' = SubSeq(idx, sp + 1, Len(idx))
           /\ valid_idx' = SubSeq(idx, 1, sp)
           /\ indices' = IF shuffle = TRUE THEN Shuffle(idx, random_seed) ELSE idx
    /\ s_pc' = "done"
    /\ UNCHANGED <<num_train, valid_size, shuffle, random_seed>>

\* ============================================================ eval_stability_2
\* Two calls of eval_stability_2 (run 1 and run 2) with the same arguments,
\* each with a noise generator of its own started in the same state gen0.
Runs == {1, 2}

VARIABLES test_tds, expl, scale, our_method, gen0,
          e_pc, i, gen, distances, x, noise, deps, deps_noise, dist, ret

evalVars == <<test_tds, expl, scale, our_method, gen0,
              e_pc, i, gen, distances, x, noise, deps, deps_noise, dist, ret>>

\* The image tensors a test sample is drawn from (view(1,1,28,28)): an
\* all-zero image, an all-one image and an alternating one.
Images == { [j \in 1..ImgLen |-> 0], [j \in 1..ImgLen |-> 1],
            [j \in 1..ImgLen |-> j % 2] }

\* Parameters of a GSENN model, as far as theta and h depend on them.
Models == { [wt |-> 1, bt |-> 1, wh |-> 1, bh |-> 1],
            [wt |-> 2, bt |-> 0, wh |-> -1, bh |-> 2] }

\* expl(inp)[0]: the relevance vector of the wrapped model at inp, a fixed
\* function of the model parameters and the input.
Theta(m, inp) == [k \in 1..NConcepts |-> m.wt * SumSeq(inp) + m.bt * k]

\* expl.net.forward(inp, h_options = -1): the concept activations at inp.
H(m, inp) == [k \in 1..NConcepts |-> m.wh * inp[((k - 1) % Len(inp)) + 1] + m.bh]

\* np.multiply(a, b), element-wise.
Multiply(a, b) == [k \in DOMAIN a |-> a[k] * b[k]]

\* a - b, element-wise.
VecSub(a, b) == [k \in DOMAIN a |-> a[k] - b[k]]

\* np.linalg.norm(v), represented by its square.
NormSq(v) == SumSeq([k \in DOMAIN v |-> v[k] * v[k]])

\* The noise generator: the value its state yields and its next state.
RandnValue(g) == (g % 3) - 1
NextGen(g) == (3 * g + 1) % 7

RECURSIVE RandnFrom(_, _)
RandnFrom(g, n) ==
    IF n = 0 THEN [vals |-> <<>>, gen |-> g]
    ELSE LET rest == RandnFrom(NextGen(g), n - 1)
         IN  [vals |-> <<RandnValue(g)>> \o rest.vals, gen |-> rest.gen]

\* A draw that reads run 1's generator instead of the caller's.
RandnShared(g, n) == RandnFrom(gen[1], n)

\* torch.randn(size) drawn from generator state g: n values and the state after.
Randn(g, n) == RandnFrom(g, n)

\* The baseline vector: theta * h under our_method, raw theta otherwise.
Deps(our, theta, h_x) == IF our THEN Multiply(theta, h_x) ELSE theta

\* The input evaluated in place of the noise tensor: the perturbed sample.
NoisedInputPerturbed(xin, nz) == [k \in DOMAIN xin |-> xin[k] + nz[k]]

\* The input at which theta and h are evaluated the second time.
NoisedInput(xin, nz) == nz

\* The noised vector always built from raw theta.
DepsNoiseRaw(our, theta, h_x) == theta

\* The noised vector: theta * h under our_method, raw theta otherwise.
DepsNoise(our, theta, h_x) == IF our THEN Multiply(theta, h_x) ELSE theta

\* An append that drops a distance of zero.
RecordNonZero(ds, d) == IF d = 0 THEN ds ELSE Append(ds, d)

\* distances.append(dist)
Record(ds, d) == Append(ds, d)

\* One iteration of the loop, for sample k (dataset[k-1]) and generator state g.
EvalIteration(test, m, sc, our, k, g) ==
    LET xin    == test[k]
        h_x    == H(m, xin)
        theta  == Theta(m, xin)
        dp     == Deps(our, theta, h_x)
        rnd    == Randn(g, Len(xin))
        nz     == [j \in DOMAIN rnd.vals |-> sc * rnd.vals[j]]
        inp    == NoisedInput(xin, nz)
        h_n    == H(m, inp)
        theta_n == Theta(m, inp)
        dpn    == DepsNoise(our, theta_n, h_n)
    IN  [x |-> xin, noise |-> nz, deps |-> dp, deps_noise |-> dpn,
         dist |-> NormSq(VecSub(dp, dpn)), gen |-> rnd.gen]

\* The loop from sample k on, with the distances so far.
RECURSIVE EvalLoop(_, _, _, _, _, _, _)
EvalLoop(test, m, sc, our, k, g, ds) ==
    IF k > NSamples THEN [distances |-> ds, gen |-> g]
    ELSE LET it == EvalIteration(test, m, sc, our, k, g)
         IN  EvalLoop(test, m, sc, our, k + 1, it.gen, Record(ds, it.dist))

\* A whole call: the returned list and the generator state it leaves.
eval_stability_2(test, m, sc, our, g) == EvalLoop(test, m, sc, our, 1, g, <<>>)

InitEvalVars ==
    /\ test_tds \in [1..NSamples -> Images]
    /\ expl \in Models
    /\ scale \in 0..MaxScale
    /\ our_method \in BOOLEAN
    /\ gen0 \in 0..(MaxGen - 1)
    /\ e_pc = [r \in Runs |-> "loop"]
    /\ i = [r \in Runs |-> 0]
    /\ gen = [r \in Runs |-> gen0]
    /\ distances = [r \in Runs |-> <<>>]
    /\ x = [r \in Runs |-> None]
    /\ noise = [r \in Runs |-> None]
    /\ deps = [r \in Runs |-> None]
    /\ deps_noise = [r \in Runs |-> None]
    /\ dist = [r \in Runs |-> None]
    /\ ret = [r \in Runs |-> None]

\* One pass through the loop body of run r.
EvalIter(r) ==
    /\ e_pc[r] = "loop"
    /\ i[r] < NSamples
    /\ LET it == EvalIteration(test_tds, expl, scale, our_method, i[r] + 1, gen[r])
       IN  /\ x' = [x EXCEPT ![r] = it.x]
           /\ noise' = [noise EXCEPT ![r] = it.noise]
           /\ deps' = [deps EXCEPT ![r] = it.deps]
           /\ deps_noise' = [deps_noise EXCEPT ![r] = it.deps_noise]
           /\ dist' = [dist EXCEPT ![r] = it.dist]
           /\ gen' = [gen EXCEPT ![r] = it.gen]
           /\ distances' = [distances EXCEPT ![r] = Record(distances[r], it.dist)]
    /\ i' = [i EXCEPT ![r] = i[r] + 1]
    /\ UNCHANGED <<test_tds, expl, scale, our_method, gen0, e_pc, ret>>

\* The loop of run r is exhausted: return distances.
EvalReturn(r) ==
    /\ e_pc[r] = "loop"
    /\ i[r] = NSamples
    /\ e_pc' = [e_pc EXCEPT ![r] = "returned"]
    /\ ret' = [ret EXCEPT ![r] = distances[r]]
    /\ UNCHANGED <<test_tds, scale, our_method, gen0, i, gen, distances,
                   x, noise, deps, deps_noise, dist, expl>>

\* ============================================================ main, __main__
VARIABLES pc, args, ckpt, torch_gen, main_call, model, trainer, main_expl,
          hists, noises, dist_dict, dist_dict_2, err, plotted,
          train_runs, eval_log, eval_count

mainVars == <<pc, args, ckpt, torch_gen, main_call, model, trainer, main_expl,
              hists, noises, dist_dict, dist_dict_2, err, plotted,
              train_runs, eval_log, eval_count>>

vars == <<splitVars, evalVars, mainVars>>

\* random_seed = 2008, the default of load_mnist_data.
DefaultSeed == 2008
\* np.arange(0, 0.21, 0.02), in hundredths.
NoiseStart == 0
NoiseStop == 21
NoiseStep == 2

\* Values of --theta_reg_type; "bogus" and "l1" stand for the strings the
\* dispatch does not list, None for an option left unset.
ThetaRegTypes == {"unreg", "none", None, "grad1", "grad2", "grad3", "crosslip",
                  "bogus", "l1"}

\* The MNIST test set: fixed data.
MnistTest == [k \in 1..NSamples |-> [j \in 1..ImgLen |-> (k + j) % 2]]

\* The parameters of a freshly constructed GSENN.
FreshParams == [wt |-> 0, bt |-> 0, wh |-> 0, bh |-> 0]

\* An optional value is a sequence of at most one element: <<>> is absent
\* (a missing file, a local not yet assigned).
Absent == <<>>
Some(v) == <<v>>

\* No trainer constructed yet.
NoTrainer == [class |-> None, typ |-> 0]
\* No model constructed yet.
NoModel == [src |-> None, params |-> FreshParams]

\* An arange whose length is rounded down.
ArangeFloor(start, stop, step) ==
    [k \in 1..((stop - start) \div step) |-> start + (k - 1) * step]

\* np.arange(start, stop, step): ceil((stop - start) / step) values.
Arange(start, stop, step) ==
    [k \in 1..((stop - start + step - 1) \div step) |-> start + (k - 1) * step]

\* d[k] = v on a dict.
DictSet(d, k, v) == [y \in (DOMAIN d) \cup {k} |-> IF y = k THEN v ELSE d[y]]

\* The names the module imports from SENN.trainers.
ImportedTrainers == {"HLearningClassTrainer", "VanillaClassTrainer", "GradPenaltyTrainer"}

\* Constructing a trainer by name: a name that was never imported raises
\* NameError.
Construct(name, typ) ==
    IF name \in ImportedTrainers
    THEN [trainer |-> [class |-> name, typ |-> typ], err |-> None]
    ELSE [trainer |-> NoTrainer, err |-> "NameError"]

\* The dispatch on theta_reg_type.
SelectTrainerFor(t) ==
    CASE t \in {"unreg", "none", None} -> Construct("VanillaClassTrainer", 0)
      [] t = "grad1" -> Construct("GradPenaltyTrainer", 1)
      [] t = "grad2" -> Construct("GradPenaltyTrainer", 2)
      [] t = "grad3" -> Construct("GradPenaltyTrainer", 3)
      [] t = "crosslip" -> Construct("CLPenaltyTrainer", 0)
      [] OTHER -> [trainer |-> NoTrainer, err |-> "ValueError"]

\* Training whenever train is set, whatever load_model says.
ShouldTrainIgnoringLoad(a) == a.train

\* The condition under which trainer.train runs.
ShouldTrain(a) == (~a.load_model) /\ a.train

\* The values one plot_distribution_h call pools, sample after sample.
RECURSIVE PlotValues(_, _, _, _)
PlotValues(test, m, plot_type, k) ==
    IF k > NSamples THEN <<>>
    ELSE LET v == CASE plot_type = "h(x)" -> H(m, test[k])
                    [] plot_type = "theta(x)" -> Theta(m, test[k])
                    [] plot_type = "theta(x)h(x)" ->
                         Multiply(Theta(m, test[k]), H(m, test[k]))
         IN  v \o PlotValues(test, m, plot_type, k + 1)

\* The plot types of the three histogram calls, in order.
PlotTypes == <<"theta(x)h(x)", "theta(x)", "h(x)">>

InitMainVars ==
    /\ pc = "script"
    /\ args \in [theta_reg_type : ThetaRegTypes, load_model : BOOLEAN, train : BOOLEAN]
    /\ ckpt \in {Absent} \cup {Some(m) : m \in Models}
    /\ torch_gen \in 0..(MaxGen - 1)
    /\ main_call = 0
    /\ model = NoModel
    /\ trainer = NoTrainer
    /\ main_expl = Absent
    /\ hists = <<>>
    /\ noises = <<>>
    /\ dist_dict = <<>>
    /\ dist_dict_2 = <<>>
    /\ err = None
    /\ plotted = Absent
    /\ train_runs = 0
    /\ eval_log = <<>>
    /\ eval_count = [s \in Range(Arange(NoiseStart, NoiseStop, NoiseStep)) |-> 0]

IdleEvalVars ==
    /\ test_tds = MnistTest
    /\ expl = None
    /\ scale = 0
    /\ our_method = FALSE
    /\ gen0 = 0
    /\ e_pc = [r \in Runs |-> "idle"]
    /\ i = [r \in Runs |-> 0]
    /\ gen = [r \in Runs |-> 0]
    /\ distances = [r \in Runs |-> <<>>]
    /\ x = [r \in Runs |-> None]
    /\ noise = [r \in Runs |-> None]
    /\ deps = [r \in Runs |-> None]
    /\ deps_noise = [r \in Runs |-> None]
    /\ dist = [r \in Runs |-> None]
    /\ ret = [r \in Runs |-> None]

IdleMainVars ==
    /\ pc = "idle"
    /\ args = [theta_reg_type |-> None, load_model |-> FALSE, train |-> FALSE]
    /\ ckpt = Absent
    /\ torch_gen = 0
    /\ main_call = 0
    /\ model = NoModel
    /\ trainer = NoTrainer
    /\ main_expl = Absent
    /\ hists = <<>>
    /\ noises = <<>>
    /\ dist_dict = <<>>
    /\ dist_dict_2 = <<>>
    /\ err = None
    /\ plotted = Absent
    /\ train_runs = 0
    /\ eval_log = <<>>
    /\ eval_count = <<>>

\* Entering main: argument parsing, load_mnist_data with its defaults, and a
\* freshly constructed model.  The call's locals start empty.
EnterMain ==
    /\ main_call' = main_call + 1
    /\ num_train' = MaxTrain
    /\ valid_size' = 1
    /\ shuffle' = TRUE
    /\ random_seed' = DefaultSeed
    /\ LET idx == ListRange(MaxTrain)
           sp  == SplitPoint(1, MaxTrain)
       IN  /\ split' = sp
           /\ train_idx' = SubSeq(idx, sp + 1, Len(idx))
           /\ valid_idx' = SubSeq(idx, 1, sp)
           /\ indices' = Shuffle(idx, DefaultSeed)
    /\ s_pc' = "done"
    /\ model' = [src |-> "init", params |-> FreshParams]
    /\ trainer' = NoTrainer
    /\ main_expl' = Absent
    /\ hists' = <<>>
    /\ noises' = <<>>
    /\ dist_dict' = <<>>
    /\ dist_dict_2' = <<>>
    /\ train_runs' = 0
    /\ eval_log' = <<>>
    /\ pc' = "load_check"
    /\ UNCHANGED <<args, ckpt, torch_gen, err, plotted, eval_count>>
    /\ UNCHANGED evalVars

\* The bare call main() of the script body; its result is dropped.
FirstMain ==
    /\ pc = "script"
    /\ EnterMain

\* distances, distances_2, noises = main()
SecondMain ==
    /\ pc = "returned"
    /\ main_call = 1
    /\ EnterMain

\* A load that keeps the fresh model when the checkpoint file is missing.
LoadModelOrSkip ==
    /\ pc = "load_check"
    /\ pc' = "dispatch"
    /\ model' = IF args.load_model /\ ckpt # Absent
                THEN [src |-> "checkpoint", params |-> ckpt[1]]
                ELSE model
    /\ UNCHANGED <<args, ckpt, torch_gen, main_call, trainer, main_expl, hists,
                   noises, dist_dict, dist_dict_2, plotted, train_runs,
                   eval_log, eval_count, err>>
    /\ UNCHANGED <<splitVars, evalVars>>

\* if args.load_model: the checkpoint is loaded and replaces the model; a
\* missing file raises out of torch.load.
LoadModel ==
    /\ pc = "load_check"
    /\ IF args.load_model
       THEN IF ckpt = Absent
            THEN /\ pc' = "error"
                 /\ err' = "FileNotFoundError"
                 /\ UNCHANGED model
            ELSE /\ pc' = "dispatch"
                 /\ model' = [src |-> "checkpoint", params |-> ckpt[1]]
                 /\ UNCHANGED err
       ELSE /\ pc' = "dispatch"
            /\ UNCHANGED <<model, err>>
    /\ UNCHANGED <<args, ckpt, torch_gen, main_call, trainer, main_expl, hists,
                   noises, dist_dict, dist_dict_2, plotted, train_runs,
                   eval_log, eval_count>>
    /\ UNCHANGED <<splitVars, evalVars>>

\* The if/elif chain on args.theta_reg_type.
SelectTrainer ==
    /\ pc = "dispatch"
    /\ LET sel == SelectTrainerFor(args.theta_reg_type)
       IN  /\ trainer' = sel.trainer
           /\ err' = sel.err
           /\ pc' = IF sel.err = None THEN "train" ELSE "error"
    /\ UNCHANGED <<args, ckpt, torch_gen, main_call, model, main_expl, hists,
                   noises, dist_dict, dist_dict_2, plotted, train_runs,
                   eval_log, eval_count>>
    /\ UNCHANGED <<splitVars, evalVars>>

\* if not args.load_model and args.train: trainer.train(...) trains the model
\* in place (it may save a checkpoint under save_path, and it draws from the
\* generator).
TrainModel ==
    /\ pc = "train"
    /\ ShouldTrain(args)
    /\ \E p \in Models, saved \in BOOLEAN, g \in 0..(MaxGen - 1) :
          /\ model' = [src |-> "trained", params |-> p]
          /\ ckpt' = IF saved THEN Some(p) ELSE ckpt
          /\ torch_gen' = g
    /\ train_runs' = train_runs + 1
    /\ pc' = "build_expl"
    /\ UNCHANGED <<args, main_call, trainer, main_expl, hists, noises,
                   dist_dict, dist_dict_2, err, plotted, eval_log, eval_count>>
    /\ UNCHANGED <<splitVars, evalVars>>

\* else: the checkpoint is loaded and a VanillaClassTrainer wraps it.
LoadInsteadOfTrain ==
    /\ pc = "train"
    /\ ~ShouldTrain(args)
    /\ IF ckpt = Absent
       THEN /\ pc' = "error"
            /\ err' = "FileNotFoundError"
            /\ UNCHANGED <<model, trainer>>
       ELSE /\ pc' = "build_expl"
            /\ model' = [src |-> "checkpoint", params |-> ckpt[1]]
            /\ trainer' = [class |-> "VanillaClassTrainer", typ |-> 0]
            /\ UNCHANGED err
    /\ UNCHANGED <<args, ckpt, torch_gen, main_call, main_expl, hists, noises,
                   dist_dict, dist_dict_2, plotted, train_runs, eval_log,
                   eval_count>>
    /\ UNCHANGED <<splitVars, evalVars>>

\* model.eval(); expl = gsenn_wrapper(model, ...)
BuildExplainer ==
    /\ pc = "build_expl"
    /\ main_expl' = Some(model.params)
    /\ pc' = "hist"
    /\ UNCHANGED <<args, ckpt, torch_gen, main_call, model, trainer, hists,
                   noises, dist_dict, dist_dict_2, err, plotted, train_runs,
                   eval_log, eval_count>>
    /\ UNCHANGED <<splitVars, evalVars>>

\* One of the three plot_distribution_h calls.
PlotDistributionH ==
    /\ pc = "hist"
    /\ Len(hists) < Len(PlotTypes)
    /\ LET pt == PlotTypes[Len(hists) + 1]
       IN  hists' = Append(hists, [plot_type |-> pt,
                                   values |-> PlotValues(MnistTest, main_expl[1], pt, 1)])
    /\ pc' = IF Len(hists) + 1 = Len(PlotTypes) THEN "sweep_init" ELSE "hist"
    /\ UNCHANGED <<args, ckpt, torch_gen, main_call, model, trainer, main_expl,
                   noises, dist_dict, dist_dict_2, err, plotted, train_runs,
                   eval_log, eval_count>>
    /\ UNCHANGED <<splitVars, evalVars>>

\* noises = np.arange(0, 0.21, 0.02); dist_dict, dist_dict_2 = {}, {}
SweepInit ==
    /\ pc = "sweep_init"
    /\ noises' = Arange(NoiseStart, NoiseStop, NoiseStep)
    /\ dist_dict' = <<>>
    /\ dist_dict_2' = <<>>
    /\ pc' = "sweep"
    /\ UNCHANGED <<args, ckpt, torch_gen, main_call, model, trainer, main_expl,
                   hists, err, plotted, train_runs, eval_log, eval_count>>
    /\ UNCHANGED <<splitVars, evalVars>>

\* One iteration of `for noise in noises`: two calls of eval_stability_2, the
\* first with our_method False, and the two dict stores.
SweepStep ==
    /\ pc = "sweep"
    /\ Len(eval_log) < 2 * Len(noises)
    /\ LET nz == noises[(Len(eval_log) \div 2) + 1]
           r1 == eval_stability_2(MnistTest, main_expl[1], nz, FALSE, torch_gen)
           r2 == eval_stability_2(MnistTest, main_expl[1], nz, TRUE, r1.gen)
       IN  /\ dist_dict' = DictSet(dist_dict, nz, r1.distances)
           /\ dist_dict_2' = DictSet(dist_dict_2, nz, r2.distances)
           /\ torch_gen' = r2.gen
           /\ eval_log' = eval_log \o
                 << [scale |-> nz, our_method |-> FALSE, result |-> r1.distances],
                    [scale |-> nz, our_method |-> TRUE, result |-> r2.distances] >>
           /\ eval_count' = [eval_count EXCEPT ![nz] = @ + 2]
    /\ UNCHANGED <<pc, args, ckpt, main_call, model, trainer, main_expl, hists,
                   noises, err, plotted, train_runs>>
    /\ UNCHANGED <<splitVars, evalVars>>

\* return dist_dict, dist_dict_2, noises
MainReturn ==
    /\ pc = "sweep"
    /\ Len(eval_log) = 2 * Len(noises)
    /\ pc' = "returned"
    /\ UNCHANGED <<args, ckpt, torch_gen, main_call, model, trainer, main_expl,
                   hists, noises, dist_dict, dist_dict_2, err, plotted,
                   train_runs, eval_log, eval_count>>
    /\ UNCHANGED <<splitVars, evalVars>>

\* The rest of the script body: the result of the second call is unpacked and
\* its per-scale statistics are plotted.
Report ==
    /\ pc = "returned"
    /\ main_call = 2
    /\ plotted' = Some([distances |-> dist_dict, distances_2 |-> dist_dict_2,
                        noises |-> noises])
    /\ pc' = "exit"
    /\ UNCHANGED <<args, ckpt, torch_gen, main_call, model, trainer, main_expl,
                   hists, noises, dist_dict, dist_dict_2, err, train_runs,
                   eval_log, eval_count>>
    /\ UNCHANGED <<splitVars, evalVars>>

\* ============================================================ specifications
MainNext ==
    \/ FirstMain
    \/ SecondMain
    \/ LoadModel
    \/ SelectTrainer
    \/ TrainModel
    \/ LoadInsteadOfTrain
    \/ BuildExplainer
    \/ PlotDistributionH
    \/ SweepInit
    \/ SweepStep
    \/ MainReturn
    \/ Report

Init == IdleSplitVars /\ IdleEvalVars /\ InitMainVars
Next == MainNext
Spec == Init /\ [][Next]_vars

InitSplit == InitSplitVars /\ IdleEvalVars /\ IdleMainVars
NextSplit == load_mnist_data /\ UNCHANGED <<evalVars, mainVars>>
SpecSplit == InitSplit /\ [][NextSplit]_vars

InitEval == IdleSplitVars /\ InitEvalVars /\ IdleMainVars
NextEval ==
    \/ \E r \in Runs : EvalIter(r) /\ UNCHANGED <<splitVars, mainVars>>
    \/ \E r \in Runs : EvalReturn(r) /\ UNCHANGED <<splitVars, mainVars>>
SpecEval == InitEval /\ [][NextEval]_vars

\* ============================================================ properties

\* ---- load_mnist_data
\* C1: with shuffle enabled, the validation set is the first
\* floor(valid_size * num_train) indices of the shuffled index list and the
\* training set is the rest of it; the two are disjoint and cover every index.
C1_SplitFollowsShuffle ==
    (s_pc = "done" /\ shuffle = TRUE) =>
        /\ Range(valid_idx) = Range(SubSeq(indices, 1, split))
        /\ Range(train_idx) = Range(SubSeq(indices, split + 1, Len(indices)))
        /\ Range(valid_idx) \cap Range(train_idx) = {}
        /\ Range(valid_idx) \cup Range(train_idx) = 0..(num_train - 1)

\* ---- eval_stability_2
\* The generator state after k iterations started from g.
GenAfter(g, k) == RandnFrom(g, k * ImgLen).gen

\* The vector the variant rule gives at input inp.
DepsAt(inp) ==
    IF our_method THEN Multiply(Theta(expl, inp), H(expl, inp)) ELSE Theta(expl, inp)

ZeroImage == [j \in 1..ImgLen |-> 0]

\* C2: a completed call returns exactly NSamples distances, position k holding
\* the distance computed for sample k, none missing or None; while the loop
\* runs there is one appended distance per visited sample, in sample order.
C2_OneDistancePerSample ==
    \A r \in Runs :
        /\ Len(distances[r]) = i[r]
        /\ i[r] <= NSamples
        /\ i[r] > 0 => /\ x[r] = test_tds[i[r]]
                       /\ distances[r][i[r]] = dist[r]
        /\ e_pc[r] = "returned" =>
              /\ Len(ret[r]) = NSamples
              /\ \A k \in 1..NSamples :
                    /\ ret[r][k] \in Nat
                    /\ ret[r][k] = EvalIteration(test_tds, expl, scale, our_method,
                                                 k, GenAfter(gen0, k - 1)).dist

C2_Witness ==
    \E r \in Runs :
        /\ e_pc[r] = "returned"
        /\ Len(ret[r]) = NSamples
        /\ \E k \in 1..NSamples : ret[r][k] = 0
        /\ \E k \in 1..NSamples : ret[r][k] > 0

C4_SameRuleNonNegative ==
    \A r \in Runs :
        i[r] > 0 =>
            /\ Len(deps[r]) = Len(deps_noise[r])
            /\ our_method =>
                  /\ deps[r] = Multiply(Theta(expl, x[r]), H(expl, x[r]))
                  /\ deps_noise[r] = Multiply(Theta(expl, noise[r]), H(expl, noise[r]))
            /\ ~our_method =>
                  /\ deps[r] = Theta(expl, x[r])
                  /\ deps_noise[r] = Theta(expl, noise[r])
            /\ dist[r] = NormSq(VecSub(deps[r], deps_noise[r]))
            /\ \A k \in 1..i[r] : distances[r][k] >= 0

C4_Witness ==
    \E r \in Runs :
        /\ our_method
        /\ scale > 0
        /\ i[r] > 0
        /\ noise[r] # ZeroImage
        /\ deps_noise[r] # Theta(expl, noise[r])
        /\ dist[r] > 0

Recognised == {"unreg", "none", None, "grad1", "grad2", "grad3", "crosslip"}

\* The positions of main after the dispatch on theta_reg_type.
PastDispatch == {"train", "build_expl", "hist", "sweep_init", "sweep", "returned", "exit"}

\* The positions of main after the model has been trained or loaded.
PastTrainOrLoad == {"build_expl", "hist", "sweep_init", "sweep", "returned", "exit"}

\* No evaluation step of the current call has run.
NothingEvaluated == main_expl = Absent /\ hists = <<>> /\ eval_log = <<>>

\* C5: every recognised theta_reg_type constructs a trainer and the run goes
\* on past the dispatch; every other value ends the run with ValueError
\* before any training or evaluation step.
C5_DispatchTotal ==
    /\ pc \in PastDispatch =>
          (args.theta_reg_type \in Recognised /\ trainer # NoTrainer)
    /\ (pc = "error" /\ args.theta_reg_type \in Recognised) =>
          err = "FileNotFoundError"
    /\ (pc = "error" /\ args.theta_reg_type \notin Recognised) =>
          /\ err \in {"ValueError", "FileNotFoundError"}
          /\ train_runs = 0
          /\ NothingEvaluated

\* C6: once a call of main is past the train-or-load step its model came from
\* exactly one of training and the checkpoint; training ran (once) if and only
\* if load_model is false and train is true, otherwise the model is the
\* checkpoint's; and no explainer, histogram or stability call precedes it.
C6_TrainXorLoad ==
    /\ pc \in PastTrainOrLoad =>
          /\ model.src \in {"trained", "checkpoint"}
          /\ (model.src = "trained") <=> ((~args.load_model) /\ args.train)
          /\ train_runs = IF (~args.load_model) /\ args.train THEN 1 ELSE 0
          /\ model.src = "checkpoint" => (ckpt # Absent /\ model.params = ckpt[1])
    /\ train_runs > 0 => ((~args.load_model) /\ args.train)
    /\ ~NothingEvaluated => pc \in PastTrainOrLoad
    /\ main_expl # Absent => main_expl[1] = model.params

C6_WitnessTrained ==
    /\ pc = "returned"
    /\ model.src = "trained"
    /\ train_runs = 1
    /\ Len(hists) = Len(PlotTypes)

\* C7: with load_model set and the checkpoint file missing the run ends with
\* the load's I/O error: nothing follows the failure, no trainer is built or
\* run, no explainer is built and no sweep result exists.
C7_MissingCheckpointIsFatal ==
    (args.load_model /\ ckpt = Absent) =>
        /\ pc \in {"script", "load_check", "error"}
        /\ pc = "error" => (err = "FileNotFoundError" /\ ~ENABLED MainNext)
        /\ trainer = NoTrainer
        /\ train_runs = 0
        /\ NothingEvaluated
        /\ dist_dict = <<>> /\ dist_dict_2 = <<>>
        /\ plotted = Absent
        /\ main_call <= 1

C7_Witness ==
    /\ args.load_model
    /\ ckpt = Absent
    /\ pc = "error"
    /\ err = "FileNotFoundError"
    /\ main_call = 1

\* The scales 0.00, 0.02, ..., 0.20 in hundredths.
ExpectedScales == [k \in 1..11 |-> 2 * (k - 1)]

\* C8: the sweep visits 0.00, 0.02, ..., 0.20 in increasing order, calling
\* eval_stability_2 twice per scale (our_method false, then true); on return
\* each result map has one key per scale, 11 keys, each mapping to the list of
\* NSamples distances its call returned.
C8_SweepTwicePerScale ==
    pc \in {"sweep", "returned", "exit"} =>
        /\ noises = ExpectedScales
        /\ \A k \in 1..(Len(noises) - 1) : noises[k] < noises[k + 1]
        /\ Len(eval_log) % 2 = 0
        /\ Len(eval_log) <= 2 * Len(noises)
        /\ \A j \in 1..Len(eval_log) :
              /\ eval_log[j].scale = noises[(j + 1) \div 2]
              /\ eval_log[j].our_method = (j % 2 = 0)
              /\ Len(eval_log[j].result) = NSamples
        /\ DOMAIN dist_dict = {noises[k] : k \in 1..(Len(eval_log) \div 2)}
        /\ DOMAIN dist_dict_2 = DOMAIN dist_dict
        /\ \A k \in 1..(Len(eval_log) \div 2) :
              /\ dist_dict[noises[k]] = eval_log[2 * k - 1].result
              /\ dist_dict_2[noises[k]] = eval_log[2 * k].result
        /\ pc \in {"returned", "exit"} =>
              /\ Len(eval_log) = 22
              /\ Cardinality(DOMAIN dist_dict) = 11
              /\ Cardinality(DOMAIN dist_dict_2) = 11

C8_Witness ==
    /\ pc = "returned"
    /\ Cardinality(DOMAIN dist_dict) = 11
    /\ \A s \in DOMAIN dist_dict : Len(dist_dict[s]) = NSamples
    /\ dist_dict[0] # dist_dict[20]
    /\ dist_dict_2[0] # dist_dict[0]

\* C10: one invocation of the script runs main exactly once, so that
\* eval_stability_2 has been called exactly twice per noise scale when the
\* script ends, and the plotted result is that run's.
C10_MainRunsOnce ==
    pc = "exit" =>
        /\ main_call = 1
        /\ \A s \in DOMAIN eval_count : eval_count[s] = 2
        /\ plotted = Some([distances |-> dist_dict, distances_2 |-> dist_dict_2,
                           noises |-> noises])

====
